---------------------------- MODULE Spec2Model ----------------------------
(***************************************************************************)
(* Model of the visual workflow editor (src/unnamed/part_000): the step    *)
(* markers ("balls") and their collection, the element locator and the     *)
(* selector synthesizer, the element picker, and the two conversions       *)
(* between the persisted action list (workflow) and the markers.           *)
(*                                                                         *)
(* Representation                                                          *)
(*   - a DOM element handle is an index into Page, 0 is null;              *)
(*   - a reference to a marker (held by the picker's callback, the open    *)
(*     menu or a pending timer) is the marker's position in state.steps,   *)
(*     Detached once the marker has left state.steps, 0 when null: what a  *)
(*     closure does to a marker outside state.steps is not observable;     *)
(*   - a selector is a tuple: <<>> is the empty (or undefined) selector,   *)
(*     <<"#", id>>, <<"testid", v>>, <<"tc", tag, class...>>,              *)
(*     <<"tag", t>>, and <<"bad">> is a selector querySelectorAll rejects; *)
(*     <<"raised">> is the outcome of a synthesizer call that throws;      *)
(*   - a symbolic key / target is a tuple: <<>> is the empty (or           *)
(*     undefined) key, <<name>> a plain key, <<prefix, n>> is the string   *)
(*     prefix followed by the decimal digits of n;                         *)
(*   - a value is a record: t = "null", or t = "num" with the number       *)
(*     num/den (a numeric string parses to the same number), or t = "str"  *)
(*     with a non-numeric text s.                                          *)
(***************************************************************************)
EXTENDS Integers, Sequences, FiniteSets, TLC

(***************************************************************************)
(* Bounds of the model.                                                    *)
(***************************************************************************)
\* longest workflow drawn as input of the transcoder specification
MaxWorkflow == 3
\* most markers the collection holds when steps are added by hand
MaxSteps == 2
\* the same in the picker specification
MaxPickerSteps == 1
\* most delayed picker starts pending at once
MaxTimers == 1
\* most capture overlays left behind in the page
MaxOrphans == 1
\* most batched notices waiting for their timer
MaxNotices == 1
\* most persistence requests in flight
MaxInflight == 2
\* half of the viewport's height and width, in pixels
HalfHeight == 60
HalfWidth == 120

(***************************************************************************)
(* Program constants.                                                      *)
(***************************************************************************)
DefaultDelay == 1000
DefaultRadius == 10
BallHalf == 14
BallSize == 28
StaggerLeft == 100
StaggerStep == 40
MsPerSecond == 1000

innerWidth == 2 * HalfWidth
innerHeight == 2 * HalfHeight

Null == 0
Detached == -1
NoKey == <<>>
NoSelector == <<>>

Min(a, b) == IF a < b THEN a ELSE b
Max(a, b) == IF a > b THEN a ELSE b

(***************************************************************************)
(* The live page.  Document order is the order of the sequence.  The last  *)
(* element stands for the editor's own markup (created by createToolbar);  *)
(* the page proper uses no div, so the tag selector div designates the     *)
(* editor's markup only.  The class token of the link is one of a utility  *)
(* stylesheet: written after a dot it is no valid selector.                *)
(***************************************************************************)
Page ==
  << [tag |-> "body",     id |-> "app",         testid |-> "",     classes |-> <<>>,
      cx |-> 120, cy |-> 60],
     [tag |-> "textarea", id |-> "prompt",      testid |-> "",     classes |-> <<"box">>,
      cx |-> 5,   cy |-> 5],
     [tag |-> "p",        id |-> "",            testid |-> "",     classes |-> <<"msg">>,
      cx |-> 60,  cy |-> 40],
     [tag |-> "p",        id |-> "",            testid |-> "",     classes |-> <<"msg", "last">>,
      cx |-> 60,  cy |-> 80],
     [tag |-> "span",     id |-> "go",          testid |-> "send", classes |-> <<"wfe-mark">>,
      cx |-> 236, cy |-> 116],
     [tag |-> "a",        id |-> "",            testid |-> "",     classes |-> <<"md:flex">>,
      cx |-> 100, cy |-> 20],
     [tag |-> "div",      id |-> "wfe-toolbar", testid |-> "",     classes |-> <<"wfe-toolbar">>,
      cx |-> 200, cy |-> 100] >>

Body == 1
EditorEl == Len(Page)
Elements == 1..Len(Page)

\* the elements the pointer visits while picking: the root, three elements
\* that can be highlighted and the editor's markup
PointerElements == {Body, 2, 3, 6, EditorEl}

Range(s) == {s[i] : i \in 1..Len(s)}

\* String.prototype.startsWith('wfe-') on the tokens the model uses
StartsWithWfe(s) == s \in {"wfe-toolbar", "wfe-mark", "wfe-pick-overlay"}

\* element e matches the (syntactically valid, non-empty) selector sel
Matches(sel, e) ==
  CASE sel[1] = "#"      -> Page[e].id = sel[2]
    [] sel[1] = "testid" -> Page[e].testid = sel[2]
    [] sel[1] = "tc"     -> /\ Page[e].tag = sel[2]
                            /\ \A i \in 3..Len(sel) : sel[i] \in Range(Page[e].classes)
    [] sel[1] = "tag"    -> Page[e].tag = sel[2]
    [] OTHER             -> FALSE

\* document.querySelectorAll(sel) of a valid selector, in document order
querySelectorAll(sel) == SelectSeq([i \in 1..Len(Page) |-> i], LAMBDA e : Matches(sel, e))

\* a locator that takes the first match
findElementFirst(selector) ==
  IF selector = NoSelector THEN Null
  ELSE IF selector[1] = "bad" THEN Null
  ELSE LET elements == querySelectorAll(selector)
       IN IF Len(elements) > 0 THEN elements[1] ELSE Null

\* findElement: none for an empty selector and for one the query rejects,
\* else the last match
findElement(selector) ==
  IF selector = NoSelector THEN Null
  ELSE IF selector[1] = "bad" THEN Null
  ELSE LET elements == querySelectorAll(selector)
       IN IF Len(elements) > 0 THEN elements[Len(elements)] ELSE Null

getElementCenter(element) ==
  IF element = Null THEN [x |-> innerWidth \div 2, y |-> innerHeight \div 2]
  ELSE [x |-> Page[element].cx, y |-> Page[element].cy]

\* the first two class tokens that are non-empty and do not start with wfe-
OwnClasses(e) ==
  LET cs == SelectSeq(Page[e].classes, LAMBDA c : c # "" /\ ~StartsWithWfe(c))
  IN SubSeq(cs, 1, Min(2, Len(cs)))

\* the token can be written after a dot as it is: '.' + c is a class selector
ValidToken(c) == c \notin {"md:flex"}

\* the outcome of a call that throws
Raised == <<"raised">>

\* a synthesizer that knows the root and the tag name only
generateSelectorByTag(element) ==
  IF element = Null \/ element = Body THEN <<"tag", "body">>
  ELSE <<"tag", Page[element].tag>>

generateSelector(element) ==
  IF element = Null \/ element = Body THEN <<"tag", "body">>
  ELSE LET byId    == <<"#", Page[element].id>>
           byTest  == <<"testid", Page[element].testid>>
           byClass == <<"tc", Page[element].tag>> \o OwnClasses(element)
       IN IF /\ Page[element].id # ""
             /\ ~StartsWithWfe(Page[element].id)
             /\ Len(querySelectorAll(byId)) = 1
          THEN byId
          ELSE IF Page[element].testid # "" /\ Len(querySelectorAll(byTest)) = 1
          THEN byTest
          ELSE IF /\ Len(OwnClasses(element)) > 0
                  /\ \E c \in Range(OwnClasses(element)) : ~ValidToken(c)
          THEN Raised
          ELSE IF Len(OwnClasses(element)) > 0 /\ Len(querySelectorAll(byClass)) = 1
          THEN byClass
          ELSE <<"tag", Page[element].tag>>


(***************************************************************************)
(* Values and action records of the persisted workflow.                    *)
(***************************************************************************)
NullValue == [t |-> "null", num |-> 0, den |-> 1, s |-> ""]
Num(n, d) == [t |-> "num", num |-> n, den |-> d, s |-> ""]
Str(txt) == [t |-> "str", num |-> 0, den |-> 1, s |-> txt]

Rec(action, target, optional, value) ==
  [action |-> action, target |-> target, optional |-> optional, value |-> value]

\* a conversion that keeps whole seconds only
WaitMsWholeSeconds(value) ==
  IF value.t = "num" THEN (value.num \div value.den) * MsPerSecond ELSE 0

\* (parseFloat(step.value) || 0) * 1000: a value that is no number counts 0.
\* Exact on the values the model draws (den divides 1000 * num).
WaitMs(value) ==
  IF value.t = "num" THEN (value.num * MsPerSecond) \div value.den ELSE 0

\* delayMs / 1000, a number of seconds
SecondsOf(delayMs) == Num(delayMs, MsPerSecond)

\* JavaScript's x || y on keys and selectors: the empty tuple is falsy
OrElse(x, y) == IF x # <<>> THEN x ELSE y

(***************************************************************************)
(* class Ball                                                              *)
(***************************************************************************)
\* { ...defaults, ...opts.config }: an own property of c overrides d
Merge(d, c) ==
  [k \in (DOMAIN d) \cup (DOMAIN c) |-> IF k \in DOMAIN c THEN c[k] ELSE d[k]]

\* the constructor's defaults; targetKey is undefined unless opts.config has it
DefaultConfig(seq) ==
  [delay_ms |-> IF seq = 1 THEN 0 ELSE DefaultDelay,
   random_radius |-> DefaultRadius,
   text |-> "",
   selector |-> NoSelector,
   targetKey |-> NoKey]

Ball(type, seq, x, y, config) ==
  [type |-> type, seq |-> seq, x |-> x, y |-> y,
   config |-> Merge(DefaultConfig(seq), config),
   isDragging |-> FALSE, offset |-> [x |-> 0, y |-> 0],
   isWarning |-> FALSE, warningMessage |-> NoSelector,
   hidden |-> FALSE]

\* a move that clamps at the far edges only
moveClampedAbove(ball, x, y) ==
  [ball EXCEPT !.x = Min(innerWidth - BallSize, x),
               !.y = Min(innerHeight - BallSize, y)]

move(ball, x, y) ==
  [ball EXCEPT !.x = Max(0, Min(innerWidth - BallSize, x)),
               !.y = Max(0, Min(innerHeight - BallSize, y))]

\* an updateSeq that renumbers and leaves the delay alone
updateSeqKeepingDelay(ball, n) == [ball EXCEPT !.seq = n]

updateSeq(ball, n) ==
  [ball EXCEPT !.seq = n,
               !.config.delay_ms = IF n = 1 THEN 0 ELSE @]

locateToElement(ball) ==
  LET target == findElement(ball.config.selector)
  IN IF target # Null
     THEN LET pos == getElementCenter(target)
          IN move(ball, pos.x - BallHalf, pos.y - BallHalf)
     ELSE ball

\* a setWarning that marks nothing
setWarningIgnored(ball, message) == ball

\* the message is "element does not exist: <selector>"; the model keeps the selector
setWarning(ball, message) ==
  [ball EXCEPT !.isWarning = TRUE, !.warningMessage = message]

\* defined by the class and called from nowhere
clearWarning(ball) ==
  updateSeq([ball EXCEPT !.isWarning = FALSE, !.warningMessage = NoSelector], ball.seq)

(***************************************************************************)
(* Marker management.  A collection state is a record [steps, timers]:     *)
(* state.steps and the positions of the markers whose delayed startPicker  *)
(* is pending.                                                             *)
(***************************************************************************)
EmptyConfig == [k \in {} |-> 0]

\* config.selector, undefined when config has no such property
ConfigSelector(config) ==
  IF "selector" \in DOMAIN config THEN config.selector ELSE NoSelector

addBall(st, type, config) ==
  LET seq == Len(st.steps) + 1
      selector == ConfigSelector(config)
      target == findElement(selector)
      elementNotFound == selector # NoSelector /\ target = Null
      pos == getElementCenter(target)
      x == IF selector # NoSelector /\ target # Null
           THEN pos.x - BallHalf ELSE StaggerLeft + (seq - 1) * StaggerStep
      y == IF selector # NoSelector /\ target # Null
           THEN pos.y - BallHalf ELSE innerHeight \div 2
      ball == Ball(type, seq, x, y, config)
  IN [steps |-> Append(st.steps,
                       IF elementNotFound THEN setWarning(ball, selector) ELSE ball),
      timers |-> IF type = "READ" /\ selector = NoSelector
                 THEN st.timers \cup {seq} ELSE st.timers]

\* removeBall without the renumbering pass
removeBallKeepingSeq(steps, idx) ==
  SubSeq(steps, 1, idx - 1) \o SubSeq(steps, idx + 1, Len(steps))

\* splice(idx, 1), then updateSeq(i + 1) on every marker left
removeBall(steps, idx) ==
  LET rest == SubSeq(steps, 1, idx - 1) \o SubSeq(steps, idx + 1, Len(steps))
  IN [i \in 1..Len(rest) |-> updateSeq(rest[i], i)]

\* a reference r after the marker at idx has left state.steps
RefAfterRemove(r, idx) ==
  IF r = idx THEN Detached ELSE IF r > idx THEN r - 1 ELSE r

\* a reference r after every marker has left state.steps
RefAfterClear(r) == IF r > 0 THEN Detached ELSE r

(***************************************************************************)
(* Site profile: [present, hasSelectors, hasWorkflow, selectors, workflow] *)
(* A falsy config has present = FALSE.                                     *)
(***************************************************************************)
NoConfig ==
  [present |-> FALSE, hasSelectors |-> FALSE, hasWorkflow |-> FALSE,
   selectors |-> <<>>, workflow |-> <<>>]

\* config.selectors[targetKey], undefined for a key the map lacks
SelectorOf(selectors, targetKey) ==
  IF targetKey \in DOMAIN selectors THEN selectors[targetKey] ELSE NoSelector

Loadable(config) == config.present /\ config.hasWorkflow /\ config.hasSelectors

\* a mapping that takes STREAM_WAIT for an input step
TypeOfActionWithoutRead(action) ==
  IF action = "CLICK" THEN "CLICK" ELSE "INPUT"

TypeOfAction(action) ==
  CASE action = "CLICK" -> "CLICK"
    [] action = "FILL_INPUT" -> "INPUT"
    [] action = "STREAM_WAIT" -> "READ"

\* a stepConfig without the accumulated delay: the constructor's default stays
StepConfigDefaultDelay(action, pendingDelay, selector, targetKey) ==
  CASE action = "CLICK" ->
         [random_radius |-> DefaultRadius, selector |-> selector, targetKey |-> targetKey]
    [] action = "FILL_INPUT" ->
         [text |-> "", selector |-> selector, targetKey |-> targetKey]
    [] action = "STREAM_WAIT" ->
         [selector |-> OrElse(selector, NoSelector), targetKey |-> targetKey]

\* the stepConfig loadFromConfig builds for a CLICK / FILL_INPUT / STREAM_WAIT step
StepConfig(action, pendingDelay, selector, targetKey) ==
  CASE action = "CLICK" ->
         [delay_ms |-> pendingDelay, random_radius |-> DefaultRadius,
          selector |-> selector, targetKey |-> targetKey]
    [] action = "FILL_INPUT" ->
         [delay_ms |-> pendingDelay, text |-> "",
          selector |-> selector, targetKey |-> targetKey]
    [] action = "STREAM_WAIT" ->
         [delay_ms |-> pendingDelay,
          selector |-> OrElse(selector, NoSelector), targetKey |-> targetKey]

\* a decode in which a skipped record empties the accumulator
RECURSIVE DecodeFromResettingOnSkip(_, _, _, _)
DecodeFromResettingOnSkip(config, i, pendingDelay, st) ==
  IF i > Len(config.workflow) THEN st
  ELSE LET step == config.workflow[i]
       IN IF step.action = "WAIT"
          THEN DecodeFromResettingOnSkip(config, i + 1,
                                         pendingDelay + WaitMs(step.value), st)
          ELSE IF step.action \notin {"CLICK", "FILL_INPUT", "STREAM_WAIT"}
          THEN DecodeFromResettingOnSkip(config, i + 1, 0, st)
          ELSE DecodeFromResettingOnSkip(config, i + 1, 0,
                 addBall(st, TypeOfAction(step.action),
                         StepConfig(step.action, pendingDelay,
                                    SelectorOf(config.selectors, step.target),
                                    step.target)))

\* the workflow.forEach of loadFromConfig from step i on
RECURSIVE DecodeFrom(_, _, _, _)
DecodeFrom(config, i, pendingDelay, st) ==
  IF i > Len(config.workflow) THEN st
  ELSE LET step == config.workflow[i]
       IN IF step.action = "WAIT"
          THEN DecodeFrom(config, i + 1, pendingDelay + WaitMs(step.value), st)
          ELSE IF step.action \notin {"CLICK", "FILL_INPUT", "STREAM_WAIT"}
          THEN DecodeFrom(config, i + 1, pendingDelay, st)
          ELSE DecodeFrom(config, i + 1, 0,
                 addBall(st, TypeOfAction(step.action),
                         StepConfig(step.action, pendingDelay,
                                    SelectorOf(config.selectors, step.target),
                                    step.target)))

\* the markers and timers loadFromConfig leaves once clearAll has run
Decoded(config) == DecodeFrom(config, 1, 0, [steps |-> <<>>, timers |-> {}])

\* notice lines that give the keys and leave the selectors out
WarningLinesKeysOnly(steps) ==
  LET warningBalls == SelectSeq(steps, LAMBDA b : b.isWarning)
  IN [i \in 1..Len(warningBalls) |->
        [key |-> OrElse(warningBalls[i].config.targetKey, <<"unknown">>),
         selector |-> NoSelector]]

\* a notice that stops at the first marker in warning state
WarningLinesFirstOnly(steps) ==
  LET warningBalls == SelectSeq(steps, LAMBDA b : b.isWarning)
  IN [i \in 1..Min(1, Len(warningBalls)) |->
        [key |-> OrElse(warningBalls[i].config.targetKey, <<"unknown">>),
         selector |-> warningBalls[i].config.selector]]

\* the lines of the batched notice: key (or "unknown") and selector of each
\* marker in warning state
WarningLines(steps) ==
  LET warningBalls == SelectSeq(steps, LAMBDA b : b.isWarning)
  IN [i \in 1..Len(warningBalls) |->
        [key |-> OrElse(warningBalls[i].config.targetKey, <<"unknown">>),
         selector |-> warningBalls[i].config.selector]]

(***************************************************************************)
(* doSave: the new workflow built from the markers, idx counting from 0.   *)
(***************************************************************************)
\* a WAIT record that carries the milliseconds as they are
WaitRecordInMs(delayMs) == Rec("WAIT", NoKey, FALSE, Num(delayMs, 1))

WaitRecord(delayMs) == Rec("WAIT", NoKey, FALSE, SecondsOf(delayMs))

OwnRecord(ball, idx) ==
  CASE ball.type = "CLICK" ->
         Rec("CLICK", OrElse(ball.config.targetKey, <<"custom_click_", idx>>),
             FALSE, NullValue)
    [] ball.type = "INPUT" ->
         Rec("FILL_INPUT", OrElse(ball.config.targetKey, <<"input_box">>),
             FALSE, IF ball.config.text # "" THEN Str(ball.config.text) ELSE NullValue)
    [] ball.type = "READ" ->
         Rec("STREAM_WAIT", OrElse(ball.config.targetKey, <<"result_container">>),
             FALSE, NullValue)

RECURSIVE EncodeFrom(_, _)
EncodeFrom(steps, i) ==
  IF i > Len(steps) THEN <<>>
  ELSE LET ball == steps[i]
           delayMs == ball.config.delay_ms
       IN (IF delayMs > 0 THEN <<WaitRecord(delayMs)>> ELSE <<>>)
          \o <<OwnRecord(ball, i - 1)>>
          \o EncodeFrom(steps, i + 1)

newWorkflow(steps) == EncodeFrom(steps, 1)

(***************************************************************************)
(* State.                                                                  *)
(***************************************************************************)
VARIABLES
  config,            \* window.__WORKFLOW_EDITOR_CONFIG__, given at injection
  targetDomain,      \* window.__WORKFLOW_EDITOR_TARGET_DOMAIN__ ("" when not given)
  started,           \* init() has run and window.WorkflowEditor exists
  steps,             \* state.steps
  siteConfig,        \* state.siteConfig (NoConfig when null)
  isPickingElement,  \* state.isPickingElement
  pickingCallback,   \* the marker state.pickingCallback writes to, Null when null
  pickOverlay,       \* the overlay (and tip) the variable pickOverlay refers to is in the page
  orphans,           \* overlays in the page that pickOverlay no longer refers to
  highlighted,       \* the element the variable highlighted refers to, Null when none
  decorated,         \* the elements that carry the class wfe-highlight
  currentMenu,       \* the marker the open context menu belongs to, Null when closed
  isVisible,         \* state.isVisible
  timers,            \* the markers in state.steps whose delayed startPicker is pending
  lostTimers,        \* pending delayed startPickers of markers no longer in state.steps
  notices,           \* batched warning notices whose timer is pending
  inflight,          \* workflows of the persistence requests in flight
  dialog             \* the last alert, prompt or clipboard text of init and doSave

vars == <<config, targetDomain, started, steps, siteConfig, isPickingElement,
          pickingCallback, pickOverlay, orphans, highlighted, decorated,
          currentMenu, isVisible, timers, lostTimers, notices, inflight, dialog>>

inputVars == <<config, targetDomain>>
overlayVars == <<isPickingElement, pickOverlay, orphans, highlighted, decorated>>
pickerVars == <<pickingCallback, overlayVars>>
timerVars == <<timers, lostTimers>>
saveVars == <<inflight, dialog>>

CurrentDomain == "here"

OverlaysInPage == orphans + (IF pickOverlay THEN 1 ELSE 0)

PendingTimers == Cardinality(timers) + lostTimers

(***************************************************************************)
(* What init and doSave show: [kind, expected, actual, workflow, error].   *)
(* exportData also carries the time of the failure, which the model has    *)
(* no clock for.                                                           *)
(***************************************************************************)
NoDialog ==
  [kind |-> "none", expected |-> "", actual |-> "", workflow |-> <<>>, error |-> ""]

\* alert(...) of the given kind, naming the hosts it names
Alert(kind, expected, actual) ==
  [NoDialog EXCEPT !.kind = kind, !.expected = expected, !.actual = actual]

\* export data built from the collection as it is when the request fails
exportDataOfCurrent(workflow) ==
  [domain |-> CurrentDomain, workflow |-> newWorkflow(steps)]

\* exportData: the request's workflow tagged with the host
exportData(workflow) == [domain |-> CurrentDomain, workflow |-> workflow]

\* the clipboard text, or the text of the prompt when the clipboard fails
Handed(kind, data, message) ==
  [NoDialog EXCEPT !.kind = kind, !.actual = data.domain, !.workflow = data.workflow,
                   !.error = message]

\* alert("save failed: " + e.message)
Failed(message) == [NoDialog EXCEPT !.kind = "failed", !.error = message]

\* messages of the exception a fetch that gets no response throws (they differ
\* between browsers and causes)
TransportErrors ==
  {"Failed to fetch", "Refused to connect: Content Security Policy",
   "NetworkError when attempting to fetch resource."}

\* message of the exception response.json() throws on a body that is no JSON
ParseErrors == {"Unexpected token"}

Thrown == TransportErrors \cup ParseErrors

\* e.message.includes('Failed to fetch') || e.message.includes('Content Security Policy')
MentionsFetchOrPolicy(message) ==
  message \in {"Failed to fetch", "Refused to connect: Content Security Policy"}

(***************************************************************************)
(* Picker.                                                                 *)
(***************************************************************************)
\* startPicker(ball): nothing removes an overlay that is already in the page
startPicker(ball) ==
  /\ isPickingElement' = TRUE
  /\ pickingCallback' = ball
  /\ orphans' = IF pickOverlay THEN orphans + 1 ELSE orphans
  /\ pickOverlay' = TRUE
  /\ UNCHANGED <<highlighted, decorated>>

\* what the cap on overlays left behind allows
CanStartPicker == pickOverlay => orphans < MaxOrphans

\* an endPicker that forgets the highlighted element
endPickerKeepingHighlight ==
  /\ isPickingElement' = FALSE
  /\ pickingCallback' = Null
  /\ pickOverlay' = FALSE
  /\ UNCHANGED <<highlighted, decorated, orphans>>

endPicker ==
  /\ isPickingElement' = FALSE
  /\ pickingCallback' = Null
  /\ decorated' = decorated \ {highlighted}
  /\ highlighted' = Null
  /\ pickOverlay' = FALSE
  /\ UNCHANGED orphans

\* document.elementFromPoint with the current overlay's hit-testing off: an
\* overlay left behind still covers the viewport and is what the point hits
PointTargets == IF orphans > 0 THEN {EditorEl} ELSE PointerElements

\* target && target !== document.body && !target.className.includes('wfe-')
\* (className includes the class wfe-highlight while the element is decorated)
CanHighlight(target, deco) ==
  /\ target # Null
  /\ target # Body
  /\ \A c \in Range(Page[target].classes) : ~StartsWithWfe(c)
  /\ target \notin deco

hideMenu == currentMenu' = Null

(***************************************************************************)
(* Handlers.                                                               *)
(***************************************************************************)
\* clearAll(): every marker leaves state.steps; a timer of such a marker stays pending
clearAll ==
  /\ steps' = <<>>
  /\ timers' = {}
  /\ lostTimers' = lostTimers + Cardinality(timers)

\* a loadFromConfig that skips clearAll() and adds to the markers present
loadStepsOntoCurrent(cfg) ==
  LET st == DecodeFrom(cfg, 1, 0, [steps |-> steps, timers |-> timers])
  IN /\ siteConfig' = cfg
     /\ steps' = st.steps
     /\ timers' = st.timers
     /\ UNCHANGED lostTimers
     /\ notices' = IF Len(WarningLines(st.steps)) > 0
                   THEN Append(notices, WarningLines(st.steps))
                   ELSE notices

\* loadFromConfig(cfg) past its guard: clearAll(), then the decoded markers
loadSteps(cfg) ==
  /\ siteConfig' = cfg
  /\ steps' = Decoded(cfg).steps
  /\ timers' = Decoded(cfg).timers
  /\ lostTimers' = lostTimers + Cardinality(timers)
  /\ notices' = IF Len(WarningLines(Decoded(cfg).steps)) > 0
                THEN Append(notices, WarningLines(Decoded(cfg).steps))
                ELSE notices

\* what the caps on pending timers and notices allow
CanLoad(cfg) ==
  /\ Len(WarningLines(Decoded(cfg).steps)) > 0 => Len(notices) < MaxNotices
  /\ PendingTimers + Cardinality(Decoded(cfg).timers) <= MaxTimers

\* a hideEditor that leaves the toolbar and the markers shown
hideEditorKeepingVisible ==
  /\ UNCHANGED <<isVisible, steps>>
  /\ hideMenu
  /\ endPicker

hideEditor ==
  /\ isVisible' = FALSE
  /\ steps' = [i \in 1..Len(steps) |-> [steps[i] EXCEPT !.hidden = TRUE]]
  /\ hideMenu
  /\ endPicker

\* init(), run once when the script is injected
Start ==
  /\ ~started
  /\ started' = TRUE
  /\ IF targetDomain # "" /\ targetDomain # CurrentDomain
     THEN /\ dialog' = Alert("mismatch", targetDomain, CurrentDomain)
          /\ hideEditor
          /\ UNCHANGED <<siteConfig, timerVars, notices>>
     ELSE /\ IF Loadable(config)
             THEN loadSteps(config) /\ UNCHANGED dialog
             ELSE /\ siteConfig' = IF config.present THEN config ELSE siteConfig
                  /\ dialog' = IF config.present THEN dialog
                                ELSE Alert("no config", "", CurrentDomain)
                  /\ UNCHANGED <<steps, timerVars, notices>>
          /\ UNCHANGED <<pickerVars, currentMenu, isVisible>>
  /\ UNCHANGED <<inputVars, inflight>>

Types == {"CLICK", "INPUT", "READ"}

\* what addBall(type) with no config makes of the collection
AddStep(type, cap) ==
  LET st == addBall([steps |-> steps, timers |-> timers], type, EmptyConfig)
  IN /\ Len(steps) < cap
     /\ Cardinality(st.timers) + lostTimers <= MaxTimers
     /\ steps' = st.steps
     /\ timers' = st.timers
     /\ UNCHANGED lostTimers

\* WorkflowEditor.addClick / addInput / addRead
ApiAddUpTo(cap) ==
  /\ started
  /\ \E type \in Types : AddStep(type, cap)
  /\ UNCHANGED <<inputVars, started, siteConfig, pickerVars, currentMenu, isVisible,
                 notices, saveVars>>

\* the toolbar lies below every capture overlay
ToolbarReachable == started /\ isVisible /\ OverlaysInPage = 0

\* toolbar buttons add-click / add-input / add-read; the click closes an open menu
ToolbarAdd ==
  /\ ToolbarReachable
  /\ \E type \in Types : AddStep(type, MaxSteps)
  /\ hideMenu
  /\ UNCHANGED <<inputVars, started, siteConfig, pickerVars, isVisible, notices, saveVars>>

\* WorkflowEditor.clear
ApiClear ==
  /\ started
  /\ clearAll
  /\ pickingCallback' = RefAfterClear(pickingCallback)
  /\ currentMenu' = RefAfterClear(currentMenu)
  /\ UNCHANGED <<inputVars, started, siteConfig, overlayVars, isVisible, notices,
                 saveVars>>

\* toolbar button clear, confirmed or not
ToolbarClear ==
  /\ ToolbarReachable
  /\ \E confirmed \in BOOLEAN :
       IF confirmed
       THEN clearAll /\ pickingCallback' = RefAfterClear(pickingCallback)
       ELSE UNCHANGED <<steps, timerVars, pickingCallback>>
  /\ hideMenu
  /\ UNCHANGED <<inputVars, started, siteConfig, overlayVars, isVisible, notices,
                 saveVars>>

\* WorkflowEditor.reload
ApiReload ==
  /\ started
  /\ IF Loadable(siteConfig)
     THEN /\ CanLoad(siteConfig)
          /\ loadSteps(siteConfig)
          /\ pickingCallback' = RefAfterClear(pickingCallback)
          /\ currentMenu' = RefAfterClear(currentMenu)
     ELSE UNCHANGED <<steps, siteConfig, timerVars, notices, pickingCallback,
                      currentMenu>>
  /\ UNCHANGED <<inputVars, started, overlayVars, isVisible, saveVars>>

\* WorkflowEditor.show
ApiShow ==
  /\ started
  /\ isVisible' = TRUE
  /\ steps' = [i \in 1..Len(steps) |-> [steps[i] EXCEPT !.hidden = FALSE]]
  /\ UNCHANGED <<inputVars, started, siteConfig, pickerVars, currentMenu, timerVars,
                 notices, saveVars>>

\* the script is injected again: the guard finds the flag set and calls
\* WorkflowEditor.show()
Reinject ==
  /\ started
  /\ isVisible' = TRUE
  /\ steps' = [i \in 1..Len(steps) |-> [steps[i] EXCEPT !.hidden = FALSE]]
  /\ UNCHANGED <<inputVars, started, siteConfig, pickerVars, currentMenu, timerVars,
                 notices, saveVars>>

\* WorkflowEditor.hide
ApiHide ==
  /\ started
  /\ hideEditor
  /\ UNCHANGED <<inputVars, started, siteConfig, timerVars, notices, saveVars>>

\* toolbar button close
ToolbarClose ==
  /\ ToolbarReachable
  /\ hideEditor
  /\ UNCHANGED <<inputVars, started, siteConfig, timerVars, notices, saveVars>>

\* a marker can be pointed at when it is shown and no capture overlay covers it
BallReachable(i) == started /\ ~steps[i].hidden /\ OverlaysInPage = 0

\* contextmenu on marker i: showMenu(ball, x, y)
ShowMenu ==
  /\ \E i \in 1..Len(steps) :
       /\ BallReachable(i)
       /\ currentMenu' = i
  /\ UNCHANGED <<inputVars, started, steps, siteConfig, pickerVars, isVisible, timerVars,
                 notices, saveVars>>

\* what the model types into the delay field: nothing, 500, 500.5 and -100
\* (the field's min attribute marks a value below 0 invalid and keeps it)
DelayTexts == {Str(""), Num(500, 1), Num(1001, 2), Num(0 - 100, 1)}

\* parseInt(text) || 0: the integer part, and 0 for a text without number
parseIntOrZero(text) ==
  IF text.t # "num" THEN 0
  ELSE IF text.num >= 0 THEN text.num \div text.den
  ELSE 0 - ((0 - text.num) \div text.den)

DelayInputs == {parseIntOrZero(text) : text \in DelayTexts}

\* change of the menu's delay field, which the menu of the first marker lacks
MenuSetDelay ==
  /\ currentMenu > 0
  /\ steps[currentMenu].seq # 1
  /\ \E v \in DelayInputs :
       steps' = [steps EXCEPT ![currentMenu].config.delay_ms = v]
  /\ UNCHANGED <<inputVars, started, siteConfig, pickerVars, currentMenu, isVisible,
                 timerVars, notices, saveVars>>

\* the menu's delete item: removeBall(ball); hideMenu()
MenuDelete ==
  /\ currentMenu # Null
  /\ IF currentMenu > 0
     THEN /\ steps' = removeBall(steps, currentMenu)
          /\ pickingCallback' = RefAfterRemove(pickingCallback, currentMenu)
          /\ timers' = {RefAfterRemove(t, currentMenu) : t \in timers \ {currentMenu}}
          /\ lostTimers' = lostTimers + (IF currentMenu \in timers THEN 1 ELSE 0)
     ELSE UNCHANGED <<steps, pickingCallback, timerVars>>
  /\ hideMenu
  /\ UNCHANGED <<inputVars, started, siteConfig, overlayVars, isVisible, notices,
                 saveVars>>

\* the menu's re-pick item, which only the menu of a READ marker has; the menu
\* lies above every capture overlay
MenuRepick ==
  /\ currentMenu > 0
  /\ steps[currentMenu].type = "READ"
  /\ CanStartPicker
  /\ hideMenu
  /\ startPicker(currentMenu)
  /\ UNCHANGED <<inputVars, started, steps, siteConfig, isVisible, timerVars, notices,
                 saveVars>>

\* a click on the page outside the menu and the markers
ClickElsewhere ==
  /\ currentMenu # Null
  /\ OverlaysInPage = 0
  /\ hideMenu
  /\ UNCHANGED <<inputVars, started, steps, siteConfig, pickerVars, isVisible, timerVars,
                 notices, saveVars>>

\* click on a READ marker
BallClick ==
  /\ \E i \in 1..Len(steps) :
       /\ BallReachable(i)
       /\ steps[i].type = "READ"
       /\ CanStartPicker
       /\ startPicker(i)
  /\ UNCHANGED <<inputVars, started, steps, siteConfig, currentMenu, isVisible, timerVars,
                 notices, saveVars>>

\* the timer addBall set for a READ marker without selector
AutoPickFire ==
  /\ CanStartPicker
  /\ \/ \E ball \in timers :
          /\ timers' = timers \ {ball}
          /\ startPicker(ball)
          /\ UNCHANGED lostTimers
     \/ /\ lostTimers > 0
        /\ lostTimers' = lostTimers - 1
        /\ startPicker(Detached)
        /\ UNCHANGED timers
  /\ UNCHANGED <<inputVars, started, steps, siteConfig, currentMenu, isVisible,
                 notices, saveVars>>

\* a pointer move that decorates without undecorating
OnPickMoveKeepingDecoration ==
  /\ OverlaysInPage > 0
  /\ \E target \in PointTargets :
       IF CanHighlight(target, decorated)
       THEN highlighted' = target /\ decorated' = decorated \cup {target}
       ELSE UNCHANGED <<highlighted, decorated>>
  /\ UNCHANGED <<inputVars, started, steps, siteConfig, isPickingElement,
                 pickingCallback, pickOverlay, orphans, currentMenu, isVisible, timerVars,
                 notices, saveVars>>

\* mousemove on the topmost capture overlay
OnPickMove ==
  /\ OverlaysInPage > 0
  /\ \E target \in PointTargets :
       LET cleared == decorated \ {highlighted}
       IN IF CanHighlight(target, cleared)
          THEN highlighted' = target /\ decorated' = cleared \cup {target}
          ELSE highlighted' = highlighted /\ decorated' = cleared
  /\ UNCHANGED <<inputVars, started, steps, siteConfig, isPickingElement,
                 pickingCallback, pickOverlay, orphans, currentMenu, isVisible, timerVars,
                 notices, saveVars>>

\* state.pickingCallback(selector): the marker takes the selector and moves to
\* the element; on a marker outside state.steps nothing observable changes
pickingCallbackResult(ball, selector) ==
  IF ball = Detached THEN steps
  ELSE [steps EXCEPT ![ball] = locateToElement([@ EXCEPT !.config.selector = selector])]

\* click on the topmost capture overlay; the click closes an open menu.  When
\* generateSelector throws, the handler ends there: no callback, no endPicker
OnPickClick ==
  /\ OverlaysInPage > 0
  /\ \E target \in PointTargets :
       IF target # Null /\ highlighted # Null /\ pickingCallback # Null
       THEN IF generateSelector(target) = Raised
            THEN UNCHANGED <<steps, pickerVars>>
            ELSE /\ steps' = pickingCallbackResult(pickingCallback, generateSelector(target))
                 /\ endPicker
       ELSE UNCHANGED steps /\ endPicker
  /\ hideMenu
  /\ UNCHANGED <<inputVars, started, siteConfig, isVisible, timerVars, notices, saveVars>>

\* keydown Escape while the listener is installed
OnPickKey ==
  /\ isPickingElement
  /\ endPicker
  /\ UNCHANGED <<inputVars, started, steps, siteConfig, currentMenu, isVisible, timerVars,
                 notices, saveVars>>

\* where inside a marker the button goes down, and where the pointer is
\* reported while the button is held: off the viewport, inside it, beyond it
Offsets == {[x |-> 0, y |-> 0], [x |-> BallHalf, y |-> BallHalf]}

Pointers ==
  { [x |-> 0 - BallSize, y |-> 0 - BallSize],
    [x |-> HalfWidth, y |-> HalfHeight],
    [x |-> HalfWidth, y |-> innerHeight + BallSize],
    [x |-> innerWidth + BallSize, y |-> innerHeight + BallSize] }

AnyDragging == \E i \in 1..Len(steps) : steps[i].isDragging

\* state.steps.find(b => b.isDragging)
FirstDragging ==
  CHOOSE i \in 1..Len(steps) :
    steps[i].isDragging /\ \A j \in 1..(i - 1) : ~steps[j].isDragging

\* a mousedown handler that drags markers of every kind
mousedownAnyType(ball, o) == [ball EXCEPT !.isDragging = TRUE, !.offset = o]

\* the mousedown handler of a marker, for the left button: a Read marker
\* returns at once
mousedown(ball, o) ==
  IF ball.type = "READ" THEN ball
  ELSE [ball EXCEPT !.isDragging = TRUE, !.offset = o]

\* mousedown with the left button on marker i; of the markers under the
\* pointer the last one of the page receives the event, and a marker being
\* dragged is under the pointer
MouseDown ==
  /\ \E i \in 1..Len(steps), o \in Offsets :
       /\ BallReachable(i)
       /\ \A j \in (i + 1)..Len(steps) : ~steps[j].isDragging
       /\ steps' = [steps EXCEPT ![i] = mousedown(@, o)]
  /\ UNCHANGED <<inputVars, started, siteConfig, pickerVars, currentMenu, isVisible,
                 timerVars, notices, saveVars>>

\* mousemove on the document
MouseMove ==
  /\ started
  /\ \E p \in Pointers :
       steps' = IF AnyDragging
                THEN [steps EXCEPT ![FirstDragging] =
                        move(@, p.x - @.offset.x, p.y - @.offset.y)]
                ELSE steps
  /\ UNCHANGED <<inputVars, started, siteConfig, pickerVars, currentMenu, isVisible,
                 timerVars, notices, saveVars>>

\* mouseup on the document
MouseUp ==
  /\ started
  /\ steps' = [i \in 1..Len(steps) |-> [steps[i] EXCEPT !.isDragging = FALSE]]
  /\ UNCHANGED <<inputVars, started, siteConfig, pickerVars, currentMenu, isVisible,
                 timerVars, notices, saveVars>>

\* a save that writes the targets it emits back into the markers
ToolbarSaveWritingKeys ==
  /\ ToolbarReachable
  /\ hideMenu
  /\ IF ~siteConfig.present
     THEN dialog' = Alert("no profile", "", "") /\ UNCHANGED <<inflight, steps>>
     ELSE IF Len(steps) = 0
     THEN dialog' = Alert("no steps", "", "") /\ UNCHANGED <<inflight, steps>>
     ELSE /\ Len(inflight) < MaxInflight
          /\ inflight' = Append(inflight, newWorkflow(steps))
          /\ steps' = [i \in 1..Len(steps) |->
                         [steps[i] EXCEPT !.config.targetKey = OwnRecord(steps[i], i - 1).target]]
          /\ UNCHANGED dialog
  /\ UNCHANGED <<inputVars, started, siteConfig, pickerVars, isVisible, timerVars,
                 notices>>

\* toolbar button save: doSave() up to the fetch; nothing keeps a second save
\* from starting while a request is pending
ToolbarSave ==
  /\ ToolbarReachable
  /\ hideMenu
  /\ IF ~siteConfig.present
     THEN dialog' = Alert("no profile", "", "") /\ UNCHANGED inflight
     ELSE IF Len(steps) = 0
     THEN dialog' = Alert("no steps", "", "") /\ UNCHANGED inflight
     ELSE /\ Len(inflight) < MaxInflight
          /\ inflight' = Append(inflight, newWorkflow(steps))
          /\ UNCHANGED dialog
  /\ UNCHANGED <<inputVars, started, steps, siteConfig, pickerVars, isVisible, timerVars,
                 notices>>

\* doSave() from the point where the fetch of request k settles: a response
\* that is ok or not, or an exception with some message
FetchSettle ==
  /\ \E k \in 1..Len(inflight) :
       /\ inflight' = SubSeq(inflight, 1, k - 1) \o SubSeq(inflight, k + 1, Len(inflight))
       /\ \/ dialog' = Alert("saved", "", CurrentDomain)
          \/ dialog' = Alert("rejected", "", "")
          \/ \E message \in Thrown, clipboardWorks \in BOOLEAN :
               dialog' = IF MentionsFetchOrPolicy(message)
                         THEN Handed(IF clipboardWorks THEN "clipboard" ELSE "manual",
                                     exportData(inflight[k]), message)
                         ELSE Failed(message)
  /\ UNCHANGED <<inputVars, started, steps, siteConfig, pickerVars, currentMenu,
                 isVisible, timerVars, notices>>

\* the timer of a batched warning notice: alert(...)
NoticeFire ==
  /\ Len(notices) > 0
  /\ notices' = Tail(notices)
  /\ UNCHANGED <<inputVars, started, steps, siteConfig, pickerVars, currentMenu,
                 isVisible, timerVars, saveVars>>

(***************************************************************************)
(* Inputs.                                                                 *)
(***************************************************************************)
\* the selector map of the site profile; the keys <<"nokey">> and <<>> are absent
SiteSelectors ==
  (<<"a">> :> <<"#", "prompt">>) @@ (<<"b">> :> <<"tag", "p">>) @@
  (<<"miss">> :> <<"#", "gone">>) @@ (<<"bad">> :> <<"bad">>) @@
  (<<"empty">> :> NoSelector) @@ (<<"custom_click_", 1>> :> <<"testid", "send">>)

Profile(workflow) ==
  [present |-> TRUE, hasSelectors |-> TRUE, hasWorkflow |-> TRUE,
   selectors |-> SiteSelectors, workflow |-> workflow]

\* a profile object without workflow
Malformed ==
  [present |-> TRUE, hasSelectors |-> TRUE, hasWorkflow |-> FALSE,
   selectors |-> SiteSelectors, workflow |-> <<>>]

\* all sequences over S of length at most n
RECURSIVE SeqsUpTo(_, _)
SeqsUpTo(S, n) ==
  IF n = 0 THEN {<<>>}
  ELSE LET shorter == SeqsUpTo(S, n - 1)
       IN shorter \cup {Append(w, r) : w \in {v \in shorter : Len(v) = n - 1}, r \in S}

\* profiles the editor specifications start from
EditorWorkflows ==
  { <<Rec("WAIT", NoKey, FALSE, Num(1, 2)), Rec("STREAM_WAIT", <<"miss">>, FALSE, NullValue),
      Rec("CLICK", <<"a">>, TRUE, NullValue),
      Rec("WAIT", NoKey, FALSE, Num(6, 5)), Rec("FILL_INPUT", <<"b">>, FALSE, NullValue)>>,
    <<Rec("STREAM_WAIT", <<"nokey">>, FALSE, NullValue),
      Rec("KEY_PRESS", <<"Enter">>, TRUE, NullValue),
      Rec("CLICK", <<"custom_click_", 1>>, FALSE, NullValue)>> }

EditorConfigs == {NoConfig} \cup {Profile(w) : w \in EditorWorkflows}


InitWith(configs, domains) ==
  /\ config \in configs
  /\ targetDomain \in domains
  /\ started = FALSE
  /\ steps = <<>>
  /\ siteConfig = NoConfig
  /\ isPickingElement = FALSE
  /\ pickingCallback = Null
  /\ pickOverlay = FALSE
  /\ orphans = 0
  /\ highlighted = Null
  /\ decorated = {}
  /\ currentMenu = Null
  /\ isVisible = TRUE
  /\ timers = {}
  /\ lostTimers = 0
  /\ notices = <<>>
  /\ inflight = <<>>
  /\ dialog = NoDialog

(***************************************************************************)
(* The collection: every handler that writes a marker's sequence number,   *)
(* delay, kind or key.                                                     *)
(***************************************************************************)
Init ==
  \/ InitWith(EditorConfigs, {""})
  \/ InitWith({Malformed, Profile(<<Rec("CLICK", <<"send_btn">>, FALSE, NullValue)>>)}, {"other"})

ApiAdd == ApiAddUpTo(MaxSteps)

Next ==
  \/ Start
  \/ ApiAdd
  \/ ToolbarAdd
  \/ ApiClear
  \/ ToolbarClear
  \/ ApiReload
  \/ Reinject
  \/ ShowMenu
  \/ MenuSetDelay
  \/ MenuDelete
  \/ ClickElsewhere
  \/ NoticeFire

Spec == Init /\ [][Next]_vars

(***************************************************************************)
(* The save: doSave on collections built by hand.                          *)
(***************************************************************************)
SaveWorkflows ==
  { <<>>,
    <<Rec("CLICK", <<"custom_click_", 1>>, FALSE, NullValue)>>,
    <<Rec("STREAM_WAIT", <<"miss">>, FALSE, NullValue)>> }

InitSave == InitWith({Profile(w) : w \in SaveWorkflows} \cup {Malformed, NoConfig}, {""})

NextSave ==
  \/ Start
  \/ ApiAdd
  \/ ToolbarSave
  \/ FetchSettle

SpecSave == InitSave /\ [][NextSave]_vars

(***************************************************************************)
(* Saves in flight: doSave on a loaded collection that is edited while     *)
(* requests are pending.                                                   *)
(***************************************************************************)
PendingWorkflows ==
  { <<Rec("WAIT", NoKey, FALSE, Num(1, 2)), Rec("CLICK", <<"a">>, FALSE, NullValue),
      Rec("FILL_INPUT", <<"b">>, FALSE, NullValue)>>,
    <<Rec("CLICK", <<"a">>, FALSE, NullValue)>> }

InitPending == InitWith({Profile(w) : w \in PendingWorkflows}, {""})

NextPending ==
  \/ Start
  \/ ApiClear
  \/ ApiReload
  \/ ShowMenu
  \/ MenuSetDelay
  \/ MenuDelete
  \/ ToolbarSave
  \/ FetchSettle

SpecPending == InitPending /\ [][NextPending]_vars

(***************************************************************************)
(* The picker: every handler that starts or ends a picker session or       *)
(* writes a marker's selector or warning state.                            *)
(***************************************************************************)
PickerWorkflows ==
  { <<Rec("WAIT", NoKey, FALSE, Num(1, 2)), Rec("STREAM_WAIT", <<"miss">>, FALSE, NullValue)>>,
    <<Rec("STREAM_WAIT", <<"nokey">>, FALSE, NullValue)>> }

InitPicker ==
  \/ InitWith({Profile(w) : w \in PickerWorkflows}, {""})
  \/ InitWith({NoConfig}, {"other"})

PickerAdd == ApiAddUpTo(MaxPickerSteps)

NextPicker ==
  \/ Start
  \/ PickerAdd
  \/ ApiClear
  \/ ApiShow
  \/ ApiHide
  \/ ToolbarClose
  \/ ShowMenu
  \/ MenuDelete
  \/ MenuRepick
  \/ BallClick
  \/ AutoPickFire
  \/ OnPickMove
  \/ OnPickClick
  \/ OnPickKey

SpecPicker == InitPicker /\ [][NextPicker]_vars

(***************************************************************************)
(* Reload: the stored profile decoded again over markers added, deleted    *)
(* and cleared, with its notice.                                           *)
(***************************************************************************)
ReloadWorkflows ==
  { <<Rec("CLICK", <<"miss">>, FALSE, NullValue), Rec("FILL_INPUT", <<"bad">>, FALSE, NullValue),
      Rec("STREAM_WAIT", <<"b">>, FALSE, NullValue)>>,
    <<Rec("WAIT", NoKey, FALSE, Num(1, 2)), Rec("CLICK", <<"a">>, FALSE, NullValue),
      Rec("KEY_PRESS", <<"Enter">>, FALSE, NullValue),
      Rec("FILL_INPUT", <<"b">>, FALSE, Str("hello"))>> }

InitReload ==
  InitWith({NoConfig, Malformed} \cup {Profile(w) : w \in ReloadWorkflows}, {""})

NextReload ==
  \/ Start
  \/ ApiAdd
  \/ ApiClear
  \/ ApiReload
  \/ ShowMenu
  \/ MenuDelete
  \/ NoticeFire

SpecReload == InitReload /\ [][NextReload]_vars

(***************************************************************************)
(* Dragging: markers loaded from a profile, pressed, moved with the        *)
(* pointer and released; a release need not follow a press.  A Read marker *)
(* is clicked and given an element by the picker.                          *)
(***************************************************************************)
DragWorkflows ==
  { <<Rec("CLICK", <<"a">>, FALSE, NullValue), Rec("FILL_INPUT", <<"b">>, FALSE, NullValue)>>,
    <<Rec("STREAM_WAIT", <<"b">>, FALSE, NullValue), Rec("CLICK", <<"nokey">>, FALSE, NullValue)>> }

InitDrag == InitWith({Profile(w) : w \in DragWorkflows}, {""})

NextDrag ==
  \/ Start
  \/ ApiClear
  \/ MouseDown
  \/ MouseMove
  \/ MouseUp
  \/ BallClick
  \/ OnPickMove
  \/ OnPickClick

SpecDrag == InitDrag /\ [][NextDrag]_vars

(***************************************************************************)
(* The transcoder: loadFromConfig and doSave on every workflow of at most  *)
(* MaxWorkflow records over CodecRecords.                                  *)
(***************************************************************************)
CodecRecords ==
  { Rec("WAIT", NoKey, FALSE, Num(0, 1)),
    Rec("WAIT", NoKey, FALSE, Num(1, 2)),
    Rec("WAIT", NoKey, FALSE, Num(6, 5)),
    Rec("WAIT", NoKey, FALSE, Str("soon")),
    Rec("CLICK", <<"a">>, FALSE, NullValue),
    Rec("CLICK", <<"a">>, TRUE, NullValue),
    Rec("CLICK", <<"miss">>, FALSE, NullValue),
    Rec("CLICK", NoKey, FALSE, NullValue),
    Rec("FILL_INPUT", <<"b">>, FALSE, Str("hello")),
    Rec("FILL_INPUT", <<"bad">>, TRUE, NullValue),
    Rec("STREAM_WAIT", <<"miss">>, TRUE, NullValue),
    Rec("STREAM_WAIT", <<"empty">>, FALSE, NullValue),
    Rec("STREAM_WAIT", <<"nokey">>, FALSE, NullValue),
    Rec("KEY_PRESS", <<"Enter">>, TRUE, NullValue) }

CodecConfigs == {Profile(w) : w \in SeqsUpTo(CodecRecords, MaxWorkflow)}

InitCodec == InitWith(CodecConfigs, {""})

NextCodec ==
  \/ Start
  \/ ToolbarSave
  \/ NoticeFire

SpecCodec == InitCodec /\ [][NextCodec]_vars


(***************************************************************************)
(* Properties.                                                             *)
(***************************************************************************)
\* C1: at every moment the sequence numbers of the markers in state.steps are
\* exactly 1..N in list order, N the number of markers.
SequenceNumbersContiguous ==
  \A i \in 1..Len(steps) : steps[i].seq = i

\* a marker created at the second staggered place is now the first of the
\* list: the marker before it has been removed
RemovedBeforeSecond ==
  /\ Len(steps) >= 1
  /\ steps[1].x = StaggerLeft + StaggerStep
  /\ steps[1].seq = 1

\* C2: the marker with sequence number 1 has a pre-delay of 0, also when the
\* loaded workflow begins with a WAIT.
FirstDelayIsZero ==
  \A i \in 1..Len(steps) : steps[i].seq = 1 => steps[i].config.delay_ms = 0

(***************************************************************************)
(* The transcoder's two sides: L is the workflow the editor decoded, E a   *)
(* workflow a save emitted.                                                *)
(***************************************************************************)
IsAction(r) == r.action \in {"CLICK", "FILL_INPUT", "STREAM_WAIT"}

ActionsOf(L) == SelectSeq(L, IsAction)

\* L holds only groups: one action record, or one WAIT record immediately
\* followed by an action record
Grouped(L) ==
  \A i \in 1..Len(L) :
    \/ IsAction(L[i])
    \/ L[i].action = "WAIT" /\ i < Len(L) /\ IsAction(L[i + 1])

\* every WAIT of L has a numeric value above 0 and every action of L a target
PositiveWaitsAndTargets(L) ==
  \A i \in 1..Len(L) :
    /\ L[i].action = "WAIT" => L[i].value.t = "num" /\ L[i].value.num > 0
    /\ IsAction(L[i]) => L[i].target # NoKey

SameValue(v, w) ==
  v.t = w.t /\ v.s = w.s /\ v.num * w.den = w.num * v.den

\* the delay in milliseconds before record i of L
DelayBefore(L, i) ==
  IF i > 1 /\ L[i - 1].action = "WAIT" THEN WaitMs(L[i - 1].value) ELSE 0

\* same kinds and targets, same WAIT records in the same places, same delay
\* before every action
SameActionsAndWaits(L, E) ==
  /\ Len(L) = Len(E)
  /\ \A i \in 1..Min(Len(L), Len(E)) :
       /\ L[i].action = E[i].action
       /\ L[i].target = E[i].target
       /\ L[i].action = "WAIT" => SameValue(L[i].value, E[i].value)
       /\ IsAction(L[i]) => DelayBefore(L, i) = DelayBefore(E, i)

\* C3 as stated: for a workflow L of groups (an action preceded by at most
\* one WAIT), encode(decode(L)) has the kinds, targets, WAIT records and
\* delays of L.
RoundTripOfGroups ==
  \A k \in 1..Len(inflight) :
    Grouped(config.workflow) => SameActionsAndWaits(config.workflow, inflight[k])

\* C3: for a workflow L of groups in which every WAIT has a numeric value above
\* 0 and every action a non-empty target, encode(decode(L)) has the kinds,
\* targets, WAIT records and delays of L.
RoundTripOfPositiveWaits ==
  \A k \in 1..Len(inflight) :
    Grouped(config.workflow) /\ PositiveWaitsAndTargets(config.workflow)
      => SameActionsAndWaits(config.workflow, inflight[k])

\* a save has emitted the round trip of such a workflow with a WAIT in it
SavedGroupsWithWait ==
  /\ Len(inflight) > 0
  /\ Grouped(config.workflow) /\ PositiveWaitsAndTargets(config.workflow)
  /\ \E i \in 1..Len(config.workflow) : config.workflow[i].action = "WAIT"

\* C4: at no point are two capture overlays in the page.
AtMostOneOverlay == OverlaysInPage <= 1

\* C5: once a picker session has ended (confirm click, Escape or hiding the
\* editor) no capture overlay of any earlier picker start is in the page.
NoOverlayOutsideSession == ~isPickingElement => OverlaysInPage = 0

(***************************************************************************)
(* The targets of an emitted workflow E against the markers st it was      *)
(* built from.                                                             *)
(***************************************************************************)
\* the place in the emitted workflow of the own record of marker i
OwnIndex(st, i) ==
  i + Cardinality({j \in 1..i : st[j].config.delay_ms > 0})

Keyless(st) == {i \in 1..Len(st) : st[i].config.targetKey = NoKey}

KnownKeysKept(st, E) ==
  \A i \in (1..Len(st)) \ Keyless(st) :
    E[OwnIndex(st, i)].target = st[i].config.targetKey

PlaceholdersUnique(st, E) ==
  \A i \in Keyless(st) :
    \A m \in 1..Len(E) :
      m # OwnIndex(st, i) => E[m].target # E[OwnIndex(st, i)].target

\* the step is a save that sends a workflow
Sends == Len(inflight') = Len(inflight) + 1

Sent == inflight'[Len(inflight')]

\* C6: in the emitted workflow a marker with a known key has that
\* key as target, and a marker without one has a placeholder target distinct
\* from every other target of the emitted workflow.
EmittedPlaceholdersUnique ==
  [][Sends => KnownKeysKept(steps, Sent) /\ PlaceholdersUnique(steps, Sent)]_vars

\* C7: the record encode(decode(L)) emits for an action record of L has the
\* optional flag of that record.
OptionalPreserved ==
  \A k \in 1..Len(inflight) :
    LET A == ActionsOf(config.workflow)
        B == ActionsOf(inflight[k])
    IN \A i \in 1..Min(Len(A), Len(B)) : B[i].optional = A[i].optional

(***************************************************************************)
(* The markers of a decode against the records they were made from: marker *)
(* i comes from action record i of the decoded workflow.                   *)
(***************************************************************************)
\* the selector the selector map gives for the record marker i was made from
MappedSelector(i) ==
  SelectorOf(config.selectors, ActionsOf(config.workflow)[i].target)

\* C8 as stated: a decoded marker is in warning state exactly when the
\* locator finds no element for the selector its record maps to, a key absent
\* from the map and an empty selector included.
WarningIffNotResolved ==
  started =>
    \A i \in 1..Len(steps) :
      steps[i].isWarning <=> findElement(MappedSelector(i)) = Null

\* C8: a decoded marker is in warning state exactly when the selector its
\* record maps to is non-empty and the locator finds no element for it; a key
\* absent from the map or an empty selector gives a marker without warning.
WarningIffSelectorNotFound ==
  started =>
    \A i \in 1..Len(steps) :
      steps[i].isWarning <=>
        (MappedSelector(i) # NoSelector /\ findElement(MappedSelector(i)) = Null)

\* a decode has made a marker in warning state, a marker of a found element
\* and a marker of a record without selector
DecodedWarningAndValid ==
  /\ started
  /\ \E i \in 1..Len(steps) : steps[i].isWarning
  /\ \E i \in 1..Len(steps) : findElement(MappedSelector(i)) # Null
  /\ \E i \in 1..Len(steps) : MappedSelector(i) = NoSelector

\* the step is the decode of the injected workflow
Decodes == ~started /\ started'

\* C9: decoding a workflow with a record whose target maps to a non-empty
\* selector that matches no element makes the marker of that record a warning
\* marker, and the notice of that decode has a line with that selector.
WarningNoticeNamesSelector ==
  [][Decodes =>
       \A i \in 1..Len(steps') :
         MappedSelector(i) # NoSelector /\ findElement(MappedSelector(i)) = Null
           => /\ steps'[i].isWarning
              /\ Len(notices') = Len(notices) + 1
              /\ \E n \in 1..Len(notices'[Len(notices')]) :
                   notices'[Len(notices')][n].selector = MappedSelector(i)]_vars

\* a decode has left a warning marker and its notice is pending
WarningNoticePending ==
  /\ started
  /\ Len(notices) > 0
  /\ \E i \in 1..Len(steps) :
       steps[i].isWarning /\ MappedSelector(i) = <<"#", "gone">>

\* C10: no marker is in warning state while its selector resolves: a picker
\* confirm that writes a resolving selector into a warning marker ends the
\* warning.
NoWarningOnResolvedSelector ==
  \A i \in 1..Len(steps) :
    steps[i].isWarning => findElement(steps[i].config.selector) = Null

(***************************************************************************)
(* Requests in flight.                                                     *)
(***************************************************************************)
\* the step settles a request
Settles == Len(inflight') = Len(inflight) - 1

\* the requests in flight without request k
WithoutRequest(k) ==
  SubSeq(inflight, 1, k - 1) \o SubSeq(inflight, k + 1, Len(inflight))

TransportFailureHandsPayload ==
  dialog.error \in TransportErrors => dialog.kind \in {"clipboard", "manual"}

Starts == ~started /\ started'

Mismatch == targetDomain # "" /\ targetDomain # CurrentDomain

\* C13: when the expected host is set and differs from the page's host, start-up
\* shows a message naming both hosts, hides the editor and decodes nothing
MismatchRefusesStart ==
  [][Starts /\ Mismatch =>
       /\ dialog'.kind = "mismatch"
       /\ dialog'.expected = targetDomain
       /\ dialog'.actual = CurrentDomain
       /\ ~isVisible'
       /\ steps' = <<>>
       /\ siteConfig' = NoConfig
       /\ notices' = notices]_vars

StartedOnOtherHost ==
  started /\ Mismatch /\ Loadable(config) /\ dialog.kind = "mismatch" /\ ~isVisible

\* C14: after a host mismatch the editor stays hidden and holds no marker
MismatchIsFatal == started /\ Mismatch => ~isVisible /\ steps = <<>>

\* C15: started with a profile that lacks selectors or workflow, the editor is
\* as if no profile had been supplied: no profile is retained as loaded and no
\* save request goes out
MalformedIsNoProfile ==
  started /\ config.present /\ ~Loadable(config) =>
    siteConfig = NoConfig /\ steps = <<>> /\ inflight = <<>>

\* C16: an open context menu and an active picker session never coexist
MenuAndPickerExclusive == ~(currentMenu # Null /\ isPickingElement)

\* a click on the capture overlay that invokes the completion callback
Confirms == OnPickClick /\ highlighted # Null /\ pickingCallback > 0

\* C17: a confirm click hands the callback the selector synthesized from the
\* element highlighted at that moment, which is decorated and is no element of
\* the editor's own markup, and leaves the picker idle
ConfirmPassesHighlighted ==
  [][Confirms =>
       /\ highlighted \in decorated
       /\ highlighted # EditorEl
       /\ steps' = pickingCallbackResult(pickingCallback, generateSelector(highlighted))
       /\ ~isPickingElement'
       /\ pickingCallback' = Null]_vars

\* C18: Escape during a picker session invokes no callback: every marker is as
\* before, and the picker is idle with no element highlighted
EscapeOnlyEndsSession ==
  [][OnPickKey =>
       /\ steps' = steps
       /\ ~isPickingElement'
       /\ pickingCallback' = Null
       /\ ~pickOverlay'
       /\ highlighted' = Null
       /\ decorated' = {}]_vars

\* Escape was pressed while an element was highlighted for a marker
EscapedWhileHovering ==
  /\ ~isPickingElement
  /\ highlighted = Null
  /\ ~pickOverlay
  /\ Len(steps) > 0
  /\ \A i \in 1..Len(steps) : steps[i].type = "READ" /\ steps[i].config.selector = <<>>
  /\ timers = {}
  /\ lostTimers = 0

InRange(v, viewport) == 0 <= v /\ v <= viewport - BallSize

\* what the specification lets move store for a requested coordinate
Stored(v, viewport) ==
  IF v < 0 THEN 0 ELSE IF v > viewport - BallSize THEN viewport - BallSize ELSE v

AtMostOneDragging ==
  Cardinality({i \in 1..Len(steps) : steps[i].isDragging}) <= 1

(***************************************************************************)
(* Markers made by add-step alone.                                         *)
(***************************************************************************)
\* C21: with no profile loaded, hence every marker at a default position and
\* none dragged, no two markers of the collection are at the same position
DefaultPositionsDistinct ==
  ~config.present =>
    \A i, j \in 1..Len(steps) :
      i # j => steps[i].x # steps[j].x \/ steps[i].y # steps[j].y

\* C22: the delay of every marker is a non-negative number of milliseconds
DelayNeverNegative ==
  \A i \in 1..Len(steps) : steps[i].config.delay_ms >= 0

(***************************************************************************)
(* Synthesizer and locator on the elements of the page.                    *)
(***************************************************************************)
\* the id of e is not one of the editor's and no other element has it
UniqueOwnId(e) ==
  /\ Page[e].id # ""
  /\ ~StartsWithWfe(Page[e].id)
  /\ \A f \in Elements : f # e => Page[f].id # Page[e].id

IdReference(e) ==
  /\ generateSelector(e) = <<"#", Page[e].id>>
  /\ findElement(generateSelector(e)) = e

\* C23 as stated: once the editor runs, for every element with a unique id of
\* its own the synthesized reference is the one by id, and the locator
\* resolves it to that element
IdReferenceOfEveryElement ==
  started => \A e \in Elements : UniqueOwnId(e) => IdReference(e)

\* C23: once the editor runs, for every element but the root container with a
\* unique id of its own the synthesized reference is the one by id, and the
\* locator resolves it to that element; the root container gets the root
\* reference, which the locator resolves to it
IdReferenceBelowRoot ==
  started =>
    /\ \A e \in Elements \ {Body} : UniqueOwnId(e) => IdReference(e)
    /\ generateSelector(Body) = <<"tag", "body">>
    /\ findElement(generateSelector(Body)) = Body

\* the picker has given a marker the reference by id of the element clicked
\* and the marker sits where the locator found that element
PickedById ==
  \E i \in 1..Len(steps) :
    /\ steps[i].config.selector = <<"#", "prompt">>
    /\ steps[i].x = Max(0, Page[2].cx - BallHalf)
    /\ steps[i].y = Max(0, Page[2].cy - BallHalf)

(***************************************************************************)
(* Reload and removal.                                                     *)
(***************************************************************************)
\* C24: a reload with a well-formed stored profile leaves the markers decoded
\* from that profile and none of the markers present before; a reload without
\* such a profile leaves the collection as it is
ReloadIsDecode ==
  [][ApiReload =>
       IF Loadable(siteConfig)
       THEN steps' = DecodeFrom(siteConfig, 1, 0, [steps |-> <<>>, timers |-> {}]).steps
       ELSE steps' = steps]_vars

\* a reload has replaced the markers while the menu of one of them was open
ReloadedUnderOpenMenu ==
  /\ currentMenu = Detached
  /\ Loadable(siteConfig)
  /\ Len(steps) > 0
  /\ steps = DecodeFrom(siteConfig, 1, 0, [steps |-> <<>>, timers |-> {}]).steps

\* C25: removing the first of at least two markers leaves the others in their
\* order, numbered from 1, each as it was but for its number, and the new first
\* one with a delay of 0
RemoveFirstRenumbers ==
  [][MenuDelete /\ currentMenu = 1 /\ Len(steps) >= 2 =>
       /\ Len(steps') = Len(steps) - 1
       /\ \A i \in 1..(Len(steps) - 1) :
            steps'[i] = [steps[i + 1] EXCEPT !.seq = i,
                                             !.config.delay_ms = IF i = 1 THEN 0 ELSE @]]_vars

\* the marker decoded after a WAIT of 1.2 s as the last of three is the first
\* one left, with no delay
LastOfThreeIsFirst ==
  /\ Len(steps) >= 1
  /\ steps[1].config.targetKey = <<"b">>
  /\ steps[1].seq = 1
  /\ steps[1].config.delay_ms = 0

(***************************************************************************)
(* Decode against the workflow L it read: marker k comes from the k-th     *)
(* action record of L.                                                     *)
(***************************************************************************)
\* the places in L of its action records, in order
ActionPositions(L) ==
  SelectSeq([i \in 1..Len(L) |-> i], LAMBDA i : IsAction(L[i]))

\* the place after the action record before the k-th one, or the start of L
AfterPrevious(L, k) == IF k = 1 THEN 1 ELSE ActionPositions(L)[k - 1] + 1

\* the sum, a fraction of seconds, of the values of the WAIT records among
\* L[from..to]; a value that is no number adds nothing
RECURSIVE WaitSum(_, _, _)
WaitSum(L, from, to) ==
  IF from > to THEN [num |-> 0, den |-> 1]
  ELSE LET rest == WaitSum(L, from + 1, to)
           v == IF L[from].action = "WAIT" /\ L[from].value.t = "num"
                THEN L[from].value ELSE Num(0, 1)
       IN [num |-> v.num * rest.den + rest.num * v.den, den |-> v.den * rest.den]

\* C26: the delay of the marker of an action record is 1000 times the sum of
\* the values of the WAIT records between the previous action record, or the
\* start, and that record; a WAIT record makes no marker
DelayIsSumOfWaits ==
  started /\ Loadable(config) =>
    LET L == config.workflow
        P == ActionPositions(L)
    IN /\ Len(steps) = Len(P)
       /\ \A k \in 1..Len(P) :
            LET sum == WaitSum(L, AfterPrevious(L, k), P[k] - 1)
            IN steps[k].config.delay_ms * sum.den = MsPerSecond * sum.num

\* two WAIT records of 0.5 s and 1.2 s have been folded into one marker
TwoWaitsFolded ==
  /\ started
  /\ Len(steps) = 1
  /\ steps[1].config.delay_ms = 1700

\* the kind of marker the specification gives an action record
KindOf(action) ==
  IF action = "CLICK" THEN "CLICK"
  ELSE IF action = "FILL_INPUT" THEN "INPUT"
  ELSE "READ"

\* C27: the decoded collection has one marker per CLICK / FILL_INPUT /
\* STREAM_WAIT record of the workflow, in the order of the records: marker k
\* has number k, the kind of the k-th such record and its target as key
DecodeOneToOne ==
  started /\ Loadable(config) =>
    LET A == ActionsOf(config.workflow)
    IN /\ Len(steps) = Len(A)
       /\ \A k \in 1..Len(A) :
            /\ steps[k].seq = k
            /\ steps[k].type = KindOf(A[k].action)
            /\ steps[k].config.targetKey = A[k].target

\* three records of three kinds have been decoded into three markers
DecodedThreeKinds ==
  /\ started
  /\ Len(steps) = 3
  /\ {steps[k].type : k \in 1..Len(steps)} = Types
  /\ Len(config.workflow) = 3

\* L without the records decode skips: those that are neither a WAIT nor an
\* action record
WithoutSkipped(L) == SelectSeq(L, LAMBDA r : r.action = "WAIT" \/ IsAction(r))

\* C28: a KEY_PRESS record or one with an unknown action makes no marker and
\* leaves the accumulated delay alone: the markers decoded from a workflow are
\* those decoded from the workflow without such records
SkippedRecordsLeaveNoTrace ==
  started /\ Loadable(config) =>
    steps = DecodeFrom([config EXCEPT !.workflow = WithoutSkipped(config.workflow)],
                       1, 0, [steps |-> <<>>, timers |-> {}]).steps

\* a workflow with a KEY_PRESS between a WAIT of 0.5 s and a CLICK has been
\* decoded into one marker with that delay
DecodedAcrossKeyPress ==
  /\ started
  /\ Len(config.workflow) = 3
  /\ config.workflow[1].action = "WAIT"
  /\ config.workflow[2].action = "KEY_PRESS"
  /\ Len(steps) = 1
  /\ steps[1].config.delay_ms = 500

(***************************************************************************)
(* Encode against the markers st it read.                                  *)
(***************************************************************************)
\* the action the specification gives a marker of a kind
ActionOfKind(type) ==
  IF type = "CLICK" THEN "CLICK"
  ELSE IF type = "INPUT" THEN "FILL_INPUT"
  ELSE "STREAM_WAIT"

\* C29: a save emits the markers' own records in the order of the markers,
\* one per marker and of the marker's kind, and a WAIT record of delay / 1000
\* seconds right before the own record of each marker with a delay above 0,
\* and no other record
EncodeEmitsWaitThenOwn ==
  [][Sends =>
       LET E == Sent
           delayed == {i \in 1..Len(steps) : steps[i].config.delay_ms > 0}
       IN /\ Len(E) = Len(steps) + Cardinality(delayed)
          /\ Len(ActionsOf(E)) = Len(steps)
          /\ \A i \in 1..Len(steps) :
               LET m == OwnIndex(steps, i)
               IN /\ E[m].action = ActionOfKind(steps[i].type)
                  /\ i \in delayed =>
                       /\ E[m - 1].action = "WAIT"
                       /\ E[m - 1].value.t = "num"
                       /\ E[m - 1].value.num * MsPerSecond
                            = steps[i].config.delay_ms * E[m - 1].value.den
                  /\ i \notin delayed /\ m > 1 => IsAction(E[m - 1])]_vars

\* a save has emitted an own record, a WAIT record and a second own record
SavedWaitBeforeSecond ==
  /\ Len(inflight) > 0
  /\ Len(inflight[1]) = 3
  /\ IsAction(inflight[1][1])
  /\ inflight[1][2].action = "WAIT"
  /\ IsAction(inflight[1][3])

(***************************************************************************)
(* The notice of a decode.                                                 *)
(***************************************************************************)
\* the step is a decode: the start with a well-formed profile on the right
\* host, or a reload of a well-formed stored profile
DecodeStep ==
  \/ Starts /\ ~Mismatch /\ Loadable(config)
  \/ ApiReload /\ Loadable(siteConfig)

\* C30: a decode that leaves no marker in warning state issues no notice; one
\* that leaves some issues one notice, with one line per such marker giving
\* its key and its selector
OneNoticePerDecode ==
  [][DecodeStep =>
       LET warned == {i \in 1..Len(steps') : steps'[i].isWarning}
       IN IF warned = {} THEN notices' = notices
          ELSE /\ Len(notices') = Len(notices) + 1
               /\ SubSeq(notices', 1, Len(notices)) = notices
               /\ LET lines == notices'[Len(notices')]
                  IN /\ Len(lines) = Cardinality(warned)
                     /\ \A i \in warned :
                          \E n \in 1..Len(lines) :
                            /\ lines[n].key = steps'[i].config.targetKey
                            /\ lines[n].selector = steps'[i].config.selector]_vars

\* a decode has left two markers in warning state and one without, and its
\* notice is pending
NoticeOfTwoWarnings ==
  /\ started
  /\ Len(notices) = 1
  /\ Len(notices[1]) = 2
  /\ Len(steps) = 3

(***************************************************************************)
(* The highlight decoration.                                               *)
(***************************************************************************)
\* C31: at most one element carries the highlight decoration, and it is the
\* element the picker holds as highlighted; a pointer move leaves decorated at
\* most the element it highlights, and outside a picker session no element is
\* decorated
AtMostOneHighlighted ==
  /\ Cardinality(decorated) <= 1
  /\ decorated \subseteq {highlighted}
  /\ ~isPickingElement => decorated = {}

\* the pointer is on the second of two elements that can be highlighted, and
\* that element is the decorated one
HighlightOnSecondElement ==
  /\ isPickingElement
  /\ highlighted = 3
  /\ decorated = {3}

(***************************************************************************)
(* Read markers and the pointer.                                           *)
(***************************************************************************)
\* C32: no step sets the dragging flag of a Read marker, and a step that
\* changes the position of a Read marker is a picker confirm for that marker
ReadMovesOnlyByPicker ==
  [][/\ \A i \in 1..Len(steps') : steps'[i].type = "READ" => ~steps'[i].isDragging
     /\ \A i \in 1..Min(Len(steps), Len(steps')) :
          /\ steps[i].type = "READ"
          /\ steps'[i].x # steps[i].x \/ steps'[i].y # steps[i].y
          => Confirms /\ pickingCallback = i]_vars

\* a Read marker has been put on the element picked for it while another
\* marker is held by the pointer
ReadPlacedDuringDrag ==
  /\ AnyDragging
  /\ \E i \in 1..Len(steps) :
       /\ steps[i].type = "READ"
       /\ steps[i].config.selector = <<"#", "prompt">>
       /\ steps[i].x = 0
       /\ steps[i].y = 0

(***************************************************************************)
(* What a save leaves alone.                                               *)
(***************************************************************************)
RecordFields == {"action", "target", "optional", "value"}

\* C33: a save, from the press of the button to the settling of its request,
\* whether it is refused, accepted, rejected or fails, changes no marker and
\* nothing of the stored profile, and what it sends is the encoded workflow:
\* records of action, target, optional and value
SaveChangesNoMarker ==
  [][ToolbarSave \/ FetchSettle =>
       /\ steps' = steps
       /\ siteConfig' = siteConfig
       /\ Sends => /\ Sent = newWorkflow(steps)
                   /\ \A m \in 1..Len(Sent) : DOMAIN Sent[m] = RecordFields]_vars

\* the save of a warning marker and a marker added by hand has failed in
\* transport and the payload was shown for manual copying
FailedSaveOfWarningMarker ==
  /\ dialog.kind = "manual"
  /\ Len(steps) = 2
  /\ steps[1].isWarning
  /\ steps[2].config.targetKey = NoKey
  /\ Len(dialog.workflow) = 3

(***************************************************************************)
(* The locator against the references of the selector map.                 *)
(***************************************************************************)
\* the references the editor resolves: those of the profile's selector map
\* and the empty one
Refs == {NoSelector} \cup {config.selectors[k] : k \in DOMAIN config.selectors}

WellFormed(ref) == ref[1] \in {"#", "testid", "tc", "tag"}

MatchSet(ref) == {e \in Elements : Matches(ref, e)}

\* the element of a non-empty set that comes last in document order
LastOf(S) == CHOOSE e \in S : \A f \in S : f <= e

\* C34: the locator gives none for the empty reference, for a reference that
\* is no valid selector and for one no element matches, and in every other
\* case the matching element that comes last in document order; it gives a
\* result for every reference
LocateReturnsLastMatch ==
  started =>
    \A ref \in Refs :
      /\ findElement(ref) \in Elements \cup {Null}
      /\ findElement(ref) =
           IF ref = NoSelector THEN Null
           ELSE IF ~WellFormed(ref) THEN Null
           ELSE IF MatchSet(ref) = {} THEN Null
           ELSE LastOf(MatchSet(ref))

\* a marker has been put on the second of the two elements its reference
\* matches and another one has a reference that is no valid selector
LocatedLastOfTwo ==
  /\ \E i \in 1..Len(steps) :
       /\ steps[i].config.selector = <<"tag", "p">>
       /\ Cardinality(MatchSet(<<"tag", "p">>)) = 2
       /\ steps[i].x = Page[4].cx - BallHalf
       /\ steps[i].y = Page[4].cy - BallHalf
  /\ \E i \in 1..Len(steps) :
       steps[i].config.selector = <<"bad">> /\ steps[i].isWarning

(***************************************************************************)
(* The synthesizer against the candidates of the specification.            *)
(***************************************************************************)
\* the candidates of an element below the root, in order of priority: by id,
\* by test attribute, by tag and the first two class tokens of its own
Candidates(e) ==
  (IF Page[e].id # "" /\ ~StartsWithWfe(Page[e].id)
   THEN <<(<<"#", Page[e].id>>)>> ELSE <<>>)
  \o (IF Page[e].testid # "" THEN <<(<<"testid", Page[e].testid>>)>> ELSE <<>>)
  \o (IF Len(OwnClasses(e)) > 0
      THEN <<(<<"tc", Page[e].tag>> \o OwnClasses(e))>> ELSE <<>>)

\* the candidate matches exactly one element of the page
MatchesOne(ref) == Cardinality({f \in Elements : Matches(ref, f)}) = 1

\* the first candidate that matches exactly one element, else the bare tag
FirstUnique(e) ==
  LET unique == SelectSeq(Candidates(e), MatchesOne)
  IN IF Len(unique) > 0 THEN unique[1] ELSE <<"tag", Page[e].tag>>

\* C35: the synthesizer returns the root reference for the root container and
\* for every other element the first of its candidates (by id, by test
\* attribute, by tag and first two class tokens) that matches exactly one
\* element, and the bare tag name when there is none
SynthesizeFirstUnique ==
  started =>
    /\ generateSelector(Body) = <<"tag", "body">>
    /\ \A e \in Elements \ {Body} : generateSelector(e) = FirstUnique(e)

(***************************************************************************)
(* The delay a decode keeps.                                               *)
(***************************************************************************)
\* the sum of the delays of the markers st[i..]
RECURSIVE DelaySum(_, _)
DelaySum(st, i) ==
  IF i > Len(st) THEN 0 ELSE st[i].config.delay_ms + DelaySum(st, i + 1)

\* C36: the delays of the decoded markers add up to 1000 times the sum of the
\* values of all WAIT records of the workflow, those after the last action
\* record included
DecodeKeepsAllDelay ==
  started /\ Loadable(config) =>
    LET sum == WaitSum(config.workflow, 1, Len(config.workflow))
    IN DelaySum(steps, 1) * sum.den = MsPerSecond * sum.num

(***************************************************************************)
(* The picker's marker.                                                    *)
(***************************************************************************)
\* C37: a picker session is a session for a marker of the collection: none is
\* active for a marker that has been removed, cleared away or replaced by a
\* reload
PickerTargetInCollection ==
  isPickingElement => pickingCallback \in 1..Len(steps)

(***************************************************************************)
(* The hidden editor.                                                      *)
(***************************************************************************)
\* C38: while the editor is hidden the page shows no capture overlay, no
\* context menu and no marker
HiddenShowsNothing ==
  ~isVisible =>
    /\ OverlaysInPage = 0
    /\ currentMenu = Null
    /\ \A i \in 1..Len(steps) : steps[i].hidden

(***************************************************************************)
(* Positions.                                                              *)
(***************************************************************************)
\* C39: the stored position of every marker lies within [0, viewport width -
\* marker size] x [0, viewport height - marker size], from its creation on
PositionsInViewport ==
  \A i \in 1..Len(steps) :
    InRange(steps[i].x, innerWidth) /\ InRange(steps[i].y, innerHeight)

(***************************************************************************)
(* What a removal leaves alone.                                            *)
(***************************************************************************)
\* C40: the removal of marker k leaves the other markers in their order, each
\* as it was but for the number of those after k and for the delay, set to 0,
\* of the one that becomes first; the removal of a marker that is not in the
\* collection leaves the collection as it is
RemoveChangesOnlyNumbers ==
  [][MenuDelete =>
       IF currentMenu > 0
       THEN /\ Len(steps') = Len(steps) - 1
            /\ \A i \in 1..Len(steps') :
                 LET old == IF i < currentMenu THEN steps[i] ELSE steps[i + 1]
                 IN steps'[i] =
                      [old EXCEPT !.seq = i,
                                  !.config.delay_ms =
                                     IF i = 1 /\ currentMenu = 1 THEN 0 ELSE @]
       ELSE steps' = steps]_vars

=========================================================================
